---------------------------- MODULE Spec2Model ----------------------------
(***************************************************************************)
(* The LLM-mediated question evaluation and generation pipeline of         *)
(* src/llm_utils.py (get_groq_client, analyze_question,                    *)
(* generate_questions) and the callers' re-scan of the evaluation report.  *)
(*                                                                         *)
(* Text is a sequence of pieces.  A piece is a TLA+ string that the model  *)
(* treats as indivisible: one character where the code looks at            *)
(* characters (digits, letters of a student level, braces, brackets,       *)
(* quotes, white space), and a whole lexeme or template fragment where the *)
(* code only copies it.  The text a sequence stands for is the             *)
(* concatenation of its pieces.                                            *)
(*                                                                         *)
(* Numbers are integers in tenths where Python holds a float (3.5 is 35),  *)
(* and plain integers where Python holds an int.                           *)
(***************************************************************************)
EXTENDS Integers, Sequences, FiniteSets, TLC

(***************************************************************************)
(* Characters and character classes (Python str / re)                      *)
(***************************************************************************)
UpperCase == <<"A","B","C","D","E","F","G","H","I","J","K","L","M",
               "N","O","P","Q","R","S","T","U","V","W","X","Y","Z">>
LowerCase == <<"a","b","c","d","e","f","g","h","i","j","k","l","m",
               "n","o","p","q","r","s","t","u","v","w","x","y","z">>
Digits == <<"0","1","2","3","4","5","6","7","8","9">>

Range(s) == { s[i] : i \in DOMAIN s }

IsSpace(c) == c \in {" ", "\n"}
IsDigit(c) == c \in Range(Digits)
IsWordChar(c) == c \in Range(UpperCase) \cup Range(LowerCase) \cup Range(Digits) \cup {"_"}

DigitVal(c) == (CHOOSE i \in DOMAIN Digits : Digits[i] = c) - 1

LowerChar(c) ==
    IF c \in Range(UpperCase)
    THEN LowerCase[CHOOSE i \in DOMAIN UpperCase : UpperCase[i] = c]
    ELSE c

\* str.lower()
Lower(s) == [ i \in DOMAIN s |-> LowerChar(s[i]) ]

\* `sub in s` for Python strings
Contains(s, sub) ==
    \E i \in 1..(Len(s) - Len(sub) + 1) : SubSeq(s, i, i + Len(sub) - 1) = sub

\* the least and the greatest element of a set of indices, 0 for the empty set
First(S) == IF S = {} THEN 0 ELSE CHOOSE x \in S : \A y \in S : x <= y
Last(S) == IF S = {} THEN 0 ELSE CHOOSE x \in S : \A y \in S : x >= y

\* index of the first position >= i of s that is not white space (Len(s)+1 if none)
SkipWs(s, i) ==
    LET j == First({ k \in i..Len(s) : ~IsSpace(s[k]) })
    IN  IF j = 0 THEN (IF i > Len(s) THEN i ELSE Len(s) + 1) ELSE j

\* index of the first position >= i of s that is not a digit
SkipDigits(s, i) ==
    LET j == First({ k \in i..Len(s) : ~IsDigit(s[k]) })
    IN  IF j = 0 THEN (IF i > Len(s) THEN i ELSE Len(s) + 1) ELSE j

\* str.strip()
Strip(s) == SubSeq(s, SkipWs(s, 1), Last({ k \in DOMAIN s : ~IsSpace(s[k]) }))

\* the value of a non-empty run of digits
RECURSIVE DigitsVal(_)
DigitsVal(s) == IF s = <<>> THEN 0 ELSE 10 * DigitsVal(SubSeq(s, 1, Len(s) - 1)) + DigitVal(s[Len(s)])

\* str(n) for a natural number, then for an int
RECURSIVE NatToChars(_)
NatToChars(n) == IF n < 10 THEN <<Digits[n + 1]>> ELSE NatToChars(n \div 10) \o <<Digits[(n % 10) + 1]>>
IntToChars(n) == IF n < 0 THEN <<"-">> \o NatToChars(-n) ELSE NatToChars(n)
\* str(x) for a float held in tenths: 50 is "5.0", -15 is "-1.5"
FloatToChars(t) ==
    LET a == IF t < 0 THEN -t ELSE t
    IN  (IF t < 0 THEN <<"-">> ELSE <<>>) \o NatToChars(a \div 10) \o <<".", Digits[(a % 10) + 1]>>


(***************************************************************************)
(* JSON values as Python holds them after json.loads.  Every value is a    *)
(* record [t, v]: t the Python type, v the payload (an int, tenths for a   *)
(* float, the pieces of a str, the <<key, value>> pairs of a dict in       *)
(* document order, the elements of a list).                                *)
(***************************************************************************)
PyNone == [t |-> "none", v |-> 0]
PyInt(n) == [t |-> "int", v |-> n]
PyFloat(tenths) == [t |-> "float", v |-> tenths]
PyStr(s) == [t |-> "str", v |-> s]
PyDict(pairs) == [t |-> "dict", v |-> pairs]
PyList(elems) == [t |-> "list", v |-> elems]
\* a raised exception, by class
Raised(cls) == [t |-> "exc", v |-> cls]
IsRaised(x) == x.t = "exc"

\* the text of a JSON document holding value x, as a model writes it
RECURSIVE Dumps(_)
RECURSIVE DumpsJoin(_, _)
DumpsJoin(items, isDict) ==
    IF items = <<>> THEN <<>>
    ELSE LET one == IF isDict
                    THEN <<"\"">> \o Head(items)[1] \o <<"\"", ":", " ">> \o Dumps(Head(items)[2])
                    ELSE Dumps(Head(items))
         IN  one \o (IF Tail(items) = <<>> THEN <<>> ELSE <<",", " ">> \o DumpsJoin(Tail(items), isDict))
Dumps(x) ==
    CASE x.t = "none"  -> <<"null">>
      [] x.t = "int"   -> IntToChars(x.v)
      [] x.t = "float" -> FloatToChars(x.v)
      [] x.t = "str"   -> <<"\"">> \o x.v \o <<"\"">>
      [] x.t = "dict"  -> <<"{">> \o DumpsJoin(x.v, TRUE) \o <<"}">>
      [] x.t = "list"  -> <<"[">> \o DumpsJoin(x.v, FALSE) \o <<"]">>

(***************************************************************************)
(* json.loads: a recursive-descent parser over the pieces.  A result is    *)
(* [ok, v, next]: whether a value was read, the value, and the position    *)
(* after it.  Supported grammar: objects, arrays, strings without escapes  *)
(* (a raw line break inside a string is an error, as in json's strict      *)
(* mode), null, and numbers with at most one fractional digit.             *)
(***************************************************************************)
ParseFail == [ok |-> FALSE, v |-> PyNone, next |-> 0]
ParseOk(x, n) == [ok |-> TRUE, v |-> x, next |-> n]

\* index of the first position >= i of s that holds c (0 if none)
IndexFrom(s, i, c) == First({ k \in i..Len(s) : s[k] = c })

ParseString(s, i) ==
    LET j == IndexFrom(s, i + 1, "\"")
    IN  IF j = 0 \/ (\E m \in (i + 1)..(j - 1) : s[m] = "\n")
        THEN ParseFail
        ELSE ParseOk(PyStr(SubSeq(s, i + 1, j - 1)), j + 1)

ParseNumber(s, i) ==
    LET neg == s[i] = "-"
        d0  == IF neg THEN i + 1 ELSE i
        d1  == IF d0 <= Len(s) /\ s[d0] = "0" THEN d0 + 1 ELSE SkipDigits(s, d0)
        ip  == DigitsVal(SubSeq(s, d0, d1 - 1))
        sgn == IF neg THEN -1 ELSE 1
    IN  IF d1 = d0 THEN ParseFail
        ELSE IF d1 <= Len(s) /\ s[d1] = "."
             THEN LET f1 == SkipDigits(s, d1 + 1)
                  IN  IF f1 = d1 + 1 THEN ParseFail
                      ELSE ParseOk(PyFloat(sgn * (10 * ip + DigitVal(s[d1 + 1]))), f1)
             ELSE ParseOk(PyInt(sgn * ip), d1)

RECURSIVE ParseValue(_, _)
RECURSIVE ParseMembers(_, _, _)
RECURSIVE ParseElements(_, _, _)

\* i is the position of a member's key, after "{" or ","
ParseMembers(s, i, acc) ==
    IF i > Len(s) \/ s[i] # "\"" THEN ParseFail
    ELSE LET k == ParseString(s, i)
             c == SkipWs(s, k.next)
         IN  IF ~k.ok \/ c > Len(s) \/ s[c] # ":" THEN ParseFail
             ELSE LET val  == ParseValue(s, SkipWs(s, c + 1))
                      e    == SkipWs(s, val.next)
                      acc2 == Append(acc, <<k.v.v, val.v>>)
                  IN  IF ~val.ok \/ e > Len(s) THEN ParseFail
                      ELSE IF s[e] = "," THEN ParseMembers(s, SkipWs(s, e + 1), acc2)
                      ELSE IF s[e] = "}" THEN ParseOk(PyDict(acc2), e + 1)
                      ELSE ParseFail

\* i is the position of an element, after "[" or ","
ParseElements(s, i, acc) ==
    LET val  == ParseValue(s, i)
        e    == SkipWs(s, val.next)
        acc2 == Append(acc, val.v)
    IN  IF ~val.ok \/ e > Len(s) THEN ParseFail
        ELSE IF s[e] = "," THEN ParseElements(s, SkipWs(s, e + 1), acc2)
        ELSE IF s[e] = "]" THEN ParseOk(PyList(acc2), e + 1)
        ELSE ParseFail

ParseValue(s, i) ==
    IF i > Len(s) THEN ParseFail
    ELSE IF s[i] = "{"
         THEN LET j == SkipWs(s, i + 1)
              IN  IF j <= Len(s) /\ s[j] = "}" THEN ParseOk(PyDict(<<>>), j + 1)
                  ELSE ParseMembers(s, j, <<>>)
    ELSE IF s[i] = "["
         THEN LET j == SkipWs(s, i + 1)
              IN  IF j <= Len(s) /\ s[j] = "]" THEN ParseOk(PyList(<<>>), j + 1)
                  ELSE ParseElements(s, j, <<>>)
    ELSE IF s[i] = "\"" THEN ParseString(s, i)
    ELSE IF s[i] = "null" THEN ParseOk(PyNone, i + 1)
    ELSE IF s[i] = "-" \/ IsDigit(s[i]) THEN ParseNumber(s, i)
    ELSE ParseFail

\* json.loads(s): the value, or Raised("JSONDecodeError") (also on text after the value)
JsonLoads(s) ==
    LET r == ParseValue(s, SkipWs(s, 1))
    IN  IF r.ok /\ SkipWs(s, r.next) > Len(s) THEN r.v ELSE Raised("JSONDecodeError")


(***************************************************************************)
(* Python built-ins the normalisation uses                                 *)
(***************************************************************************)
\* dict.get(key, default): the last member with that key wins
RECURSIVE DictGet(_, _, _)
DictGet(pairs, key, default) ==
    IF pairs = <<>> THEN default
    ELSE IF pairs[Len(pairs)][1] = key THEN pairs[Len(pairs)][2]
    ELSE DictGet(SubSeq(pairs, 1, Len(pairs) - 1), key, default)

\* the number the literal s spells, its digits being s[d0..d1-1] after an optional
\* sign: [ok, isInt, int part, tenths]
NotANumber == [ok |-> FALSE, isInt |-> FALSE, int |-> 0, tenths |-> 0]
SpelledNumber(s, sgn, ip, d0, d1) ==
    IF d1 = d0 THEN NotANumber
    ELSE IF d1 > Len(s) THEN [ok |-> TRUE, isInt |-> TRUE, int |-> sgn * ip, tenths |-> sgn * 10 * ip]
    ELSE IF s[d1] = "." /\ d1 < Len(s) /\ SkipDigits(s, d1 + 1) > Len(s)
         THEN [ok |-> TRUE, isInt |-> FALSE, int |-> sgn * ip,
               tenths |-> sgn * (10 * ip + DigitVal(s[d1 + 1]))]
    ELSE NotANumber
NumberFrom(s, d0, d1) ==
    SpelledNumber(s, IF s[1] = "-" THEN -1 ELSE 1, DigitsVal(SubSeq(s, d0, d1 - 1)), d0, d1)
StrippedNumber(s, d0) == IF s = <<>> THEN NotANumber ELSE NumberFrom(s, d0, SkipDigits(s, d0))
\* the number a Python numeric literal in a str spells; white space around it is ignored
StrNumber(chars) ==
    StrippedNumber(Strip(chars), IF Strip(chars) # <<>> /\ Strip(chars)[1] \in {"-", "+"} THEN 2 ELSE 1)

\* float(x)
FloatOfStr(n) == IF n.ok THEN PyFloat(n.tenths) ELSE Raised("ValueError")
ToFloat(x) ==
    CASE x.t = "int"   -> PyFloat(10 * x.v)
      [] x.t = "float" -> x
      [] x.t = "str"   -> FloatOfStr(StrNumber(x.v))
      [] OTHER         -> Raised("TypeError")

\* int(x): a float is truncated toward zero, a str must spell an integer
IntOfStr(n) == IF n.ok /\ n.isInt THEN PyInt(n.int) ELSE Raised("ValueError")
ToInt(x) ==
    CASE x.t = "int"   -> x
      [] x.t = "float" -> PyInt(IF x.v >= 0 THEN x.v \div 10 ELSE -((-x.v) \div 10))
      [] x.t = "str"   -> IntOfStr(StrNumber(x.v))
      [] OTHER         -> Raised("TypeError")

\* min(a, b) and max(a, b) with the first argument a
PyMin(a, b) == IF b < a THEN b ELSE a
PyMax(a, b) == IF b > a THEN b ELSE a

\* `not x`
Falsy(x) ==
    CASE x.t = "none" -> TRUE
      [] x.t \in {"int", "float"} -> x.v = 0
      [] OTHER -> x.v = <<>>

\* what an f-string puts for {x}; a dict or list is rendered in JSON notation
Format(x) ==
    CASE x.t = "none"  -> <<"N","o","n","e">>
      [] x.t = "int"   -> IntToChars(x.v)
      [] x.t = "float" -> FloatToChars(x.v)
      [] x.t = "str"   -> x.v
      [] OTHER         -> Dumps(x)

(***************************************************************************)
(* Regular expressions of analyze_question                                 *)
(***************************************************************************)
\* The Markdown code-fence marker, three backquotes (a TLA+ string cannot hold
\* a backquote, so the piece is spelled with its name).
Fence == "<three backquotes>"

\* re.sub(FENCE + r'json\s*|\s*' + FENCE, '', s), the text from position i on.
\* The scan copies pieces up to the next match.  A match ends at or starts with the
\* next fence j: white space right before the fence starts a match of the second
\* alternative (white space, fence), which leaves a following "json" in the text;
\* a fence the scan reaches itself is matched with "json" and the white space after
\* it by the first alternative when "json" follows, and alone by the second.
RECURSIVE StripFencesFrom(_, _)
StripFencesFrom(s, i) ==
    LET j == IndexFrom(s, i, Fence)
        w == Last({ k \in i..(j - 1) : ~IsSpace(s[k]) })     \* last piece before the run
        b == IF w = 0 THEN i ELSE w + 1                      \* where the white space starts
    IN  IF j = 0 THEN SubSeq(s, i, Len(s))
        ELSE IF b < j THEN SubSeq(s, i, b - 1) \o StripFencesFrom(s, j + 1)
        ELSE IF j < Len(s) /\ s[j + 1] = "json"
             THEN SubSeq(s, i, j - 1) \o StripFencesFrom(s, SkipWs(s, j + 2))
        ELSE SubSeq(s, i, j - 1) \o StripFencesFrom(s, j + 1)
StripFences(s) == StripFencesFrom(s, 1)

\* index of the first brace at a position >= i of s (0 if none)
NextBrace(s, i) == First({ k \in i..Len(s) : s[k] \in {"{", "}"} })

\* re.search(r'\{[^{}]*\}', s): the leftmost "{" whose next brace is a "}"; [found, text]
SearchFlatObject(s) ==
    LET i == First({ k \in DOMAIN s :
                       s[k] = "{" /\ NextBrace(s, k + 1) # 0 /\ s[NextBrace(s, k + 1)] = "}" })
    IN  IF i = 0 THEN [found |-> FALSE, text |-> <<>>]
        ELSE [found |-> TRUE, text |-> SubSeq(s, i, NextBrace(s, i + 1))]

(***************************************************************************)
(* get_groq_client                                                         *)
(*   cfg.envKey    : os.environ.get("GROQ_API_KEY"), "" when unset or empty *)
(*   cfg.secretKey : st.secrets["groq_api_key"], "" when empty, "raise"     *)
(*                   when the lookup raises (no secrets file, no such key)  *)
(*   cfg.ctor      : whether Groq(api_key=...) returns ("ok") or raises     *)
(***************************************************************************)
\* the exception classes the model distinguishes; all derive from Exception
ExceptionClasses == {"JSONDecodeError", "ValueError", "TypeError", "AttributeError", "APIError"}

\* get_groq_client without the test of line 26: an empty key reaches the constructor
GetGroqClient_KeyNotChecked(cfg) ==
    IF cfg.ctor = "raise" THEN "None" ELSE "client"

GetGroqClient(cfg) ==
    LET api_key == IF cfg.envKey # "" THEN cfg.envKey
                   ELSE IF cfg.secretKey = "raise" THEN "" ELSE cfg.secretKey
    IN  IF api_key = "" THEN "None"
        ELSE IF cfg.ctor = "raise" THEN "None"   \* except Exception: return None
        ELSE "client"

(***************************************************************************)
(* analyze_question                                                        *)
(***************************************************************************)
Beginner == <<"B","e","g","i","n","n","e","r">>
Intermediate == <<"I","n","t","e","r","m","e","d","i","a","t","e">>
Advanced == <<"A","d","v","a","n","c","e","d">>
NoSuggestions == <<"No specific improvement suggestions provided.">>

\* the f-string of lines 201-211 and 230-240
Report(difficulty_rating, estimated_time, student_level, improvement_suggestions) ==
    <<"## Question Analysis", "\n", "\n", "**", "Difficulty Rating:", "**", " ">>
    \o Format(difficulty_rating)
    \o <<"/5.0", "\n", "\n", "**", "Estimated Time:", "**", " ">>
    \o Format(estimated_time)
    \o <<" ", "minutes", "\n", "\n", "**", "Appropriate ", "Student Level:", "**", " ">>
    \o Format(student_level)
    \o <<"\n", "\n", "### Improvement Suggestions:", "\n">>
    \o Format(improvement_suggestions)
    \o <<"\n">>

\* what a block of the function ends with: a return statement or a raised exception.
\* est, level and sugg record the values formatted into a report and obj the parsed
\* object the report was built from (None without a report), parses the json.loads
\* calls made and requests the completion requests sent.
Return(difficulty, text, path, est, level, sugg) ==
    [outcome |-> "return", difficulty |-> difficulty, text |-> text, path |-> path,
     est |-> est, level |-> level, sugg |-> sugg, exc |-> "", parses |-> 0, requests |-> 0,
     obj |-> PyNone]
Raise(cls) ==
    [outcome |-> "raise", difficulty |-> PyNone, text |-> <<>>, path |-> "raise",
     est |-> PyNone, level |-> PyNone, sugg |-> PyNone, exc |-> cls, parses |-> 0, requests |-> 0,
     obj |-> PyNone]

\* lines 184-195: the level printed for a student_level that is a str
ClassifyLevel(student_level) ==
    LET lowered == Lower(student_level)
    IN  IF Contains(lowered, <<"b","e","g","i","n","n","e","r">>) THEN Beginner
        ELSE IF Contains(lowered, <<"a","d","v","a","n","c","e","d">>) THEN Advanced
        ELSE Intermediate

\* lines 153-158 without the re.sub of line 156
CleanResponse_FencesKept(response_text) == Strip(response_text)
\* lines 153-158: the response text as both parse attempts see it
CleanResponse(response_text) == Strip(StripFences(response_text))

\* lines 169-171, 177-182, 185-195 and 197-198: each field as the direct path
\* validates it, or the exception the validation raises: float() then
\* max(1.0, min(5.0, .)), in tenths, and int() then max(1, min(60, .))
ValidDifficulty(d) == IF IsRaised(d) THEN d ELSE PyFloat(PyMax(10, PyMin(50, d.v)))
ClampedTime(t) == IF IsRaised(t) THEN t ELSE PyInt(PyMax(1, PyMin(60, t.v)))
ValidTime(estimated_time) ==
    IF estimated_time.t = "none" THEN PyInt(5) ELSE ClampedTime(ToInt(estimated_time))
ValidLevel(student_level) ==
    IF student_level.t = "none" THEN PyStr(Intermediate)
    ELSE IF student_level.t # "str" THEN Raised("AttributeError")        \* .lower()
    ELSE PyStr(ClassifyLevel(student_level.v))
ValidSuggestions(improvement_suggestions) ==
    IF Falsy(improvement_suggestions) THEN PyStr(NoSuggestions) ELSE improvement_suggestions

\* lines 168-213: the statements in order, given the raw difficulty_rating and the
\* other fields as validated
DirectFields(result, difficulty_rating, dc, tc, lv, sugg) ==
    IF difficulty_rating.t = "none"
    THEN Return(PyNone, <<"Error: No difficulty rating provided in analysis">>,
                "no_difficulty", PyNone, PyNone, PyNone)
    ELSE IF IsRaised(dc) THEN Raise(dc.v)
    ELSE IF IsRaised(tc) THEN Raise(tc.v)
    ELSE IF IsRaised(lv) THEN Raise(lv.v)
    ELSE [Return(dc, Report(dc, tc, lv, sugg), "direct", tc, lv, sugg) EXCEPT !.obj = result]

\* lines 161-213: what json.loads gave
DirectResult(result) ==
    IF IsRaised(result) THEN Raise("JSONDecodeError")
    ELSE IF result.t # "dict" THEN Raise("AttributeError")               \* result.get
    ELSE DirectFields(result,
                      DictGet(result.v, <<"difficulty_rating">>, PyNone),
                      ValidDifficulty(ToFloat(DictGet(result.v, <<"difficulty_rating">>, PyNone))),
                      ValidTime(DictGet(result.v, <<"estimated_time">>, PyNone)),
                      ValidLevel(DictGet(result.v, <<"student_level">>, PyNone)),
                      ValidSuggestions(DictGet(result.v, <<"improvement_suggestions">>, PyNone)))

\* lines 224-242: the converted fields go into the report as they are
EmbeddedFields(result, difficulty_rating, estimated_time, student_level, improvement_suggestions) ==
    IF IsRaised(difficulty_rating) THEN Raise(difficulty_rating.v)
    ELSE IF IsRaised(estimated_time) THEN Raise(estimated_time.v)
    ELSE [Return(difficulty_rating,
                 Report(difficulty_rating, estimated_time, student_level,
                        improvement_suggestions),
                 "embedded", estimated_time, student_level, improvement_suggestions)
          EXCEPT !.obj = result]

\* lines 223-242: what json.loads gave for the matched text
EmbeddedResult(result) ==
    IF IsRaised(result) THEN Raise("JSONDecodeError")
    ELSE IF result.t # "dict" THEN Raise("AttributeError")
    ELSE EmbeddedFields(result,
                        ToFloat(DictGet(result.v, <<"difficulty_rating">>, PyFloat(30))),
                        ToInt(DictGet(result.v, <<"estimated_time">>, PyInt(5))),
                        DictGet(result.v, <<"student_level">>, PyStr(Intermediate)),
                        DictGet(result.v, <<"improvement_suggestions">>, PyStr(NoSuggestions)))

\* lines 221-242: "no_match" when the search finds nothing, one json.loads otherwise
EmbeddedMatch(json_match) ==
    IF ~json_match.found THEN Return(PyNone, <<>>, "no_match", PyNone, PyNone, PyNone)
    ELSE [EmbeddedResult(JsonLoads(json_match.text)) EXCEPT !.parses = 1]

\* which exceptions each handler of analyze_question catches
InnerCatches(cls) == cls = "JSONDecodeError"      \* line 215: except json.JSONDecodeError
NestedCatches(cls) == cls \in ExceptionClasses    \* line 243: except Exception
\* line 249 catching only the errors of the request
OuterCatches_RequestErrorsOnly(cls) == cls = "APIError"
OuterCatches(cls) == cls \in ExceptionClasses     \* line 249: except Exception

\* line 136-149: the request; net is what the endpoint does with it
Complete(net, response) ==
    CASE net = "ok"         -> PyStr(response)
      [] net = "no_content" -> PyNone
      [] OTHER              -> Raised("APIError")

\* lines 243-247: what the nested try ended with, emb, decides between its report
\* and the raw fallback
FallbackResult(cleaned, emb) ==
    IF emb.outcome = "return" /\ emb.path # "no_match" THEN emb
    ELSE IF emb.outcome = "return" \/ NestedCatches(emb.exc)
         THEN [Return(PyFloat(30), <<"Analysis (raw): ">> \o cleaned, "raw",
                      PyNone, PyNone, PyNone) EXCEPT !.parses = emb.parses]
    ELSE emb

\* lines 215-247: the handler of the inner try's JSONDecodeError, around the nested
\* try of lines 220-242
ParseFallback(cleaned) == FallbackResult(cleaned, EmbeddedMatch(SearchFlatObject(cleaned)))

\* lines 153-247: what the inner try ended with, inner, is returned or handled
InnerTry(cleaned, inner) ==
    IF inner.outcome = "return" \/ ~InnerCatches(inner.exc)
    THEN [inner EXCEPT !.parses = 1]
    ELSE [ParseFallback(cleaned) EXCEPT !.parses = 1 + @]

\* lines 153-247, on the cleaned response; lines 160-213 are the body of the inner
\* try after the clean-up
ParseResponse(cleaned) == InnerTry(cleaned, DirectResult(JsonLoads(cleaned)))

\* lines 149-247: .strip() of the content, which may be None
ReadContent(content) ==
    IF IsRaised(content) THEN Raise(content.v)
    ELSE IF content.t = "none" THEN Raise("AttributeError")               \* None.strip()
    ELSE ParseResponse(CleanResponse(Strip(content.v)))

\* lines 67-247 with the request sent once more after an upstream error
AnalyzeBody_RetryOnError(net, response) ==
    [ReadContent(Complete(net, response)) EXCEPT !.requests = IF net = "error" THEN 2 ELSE 1]
\* lines 67-247: the outer try, with a client
AnalyzeBody(net, response) == [ReadContent(Complete(net, response)) EXCEPT !.requests = 1]

\* lines 249-251: the handler of the outer try
OuterTry(body) ==
    IF body.outcome = "return" THEN body
    ELSE IF OuterCatches(body.exc)
         THEN [Return(PyNone, <<"Error calling Groq API: ", body.exc>>,
                      IF body.parses = 0 THEN "api_error" ELSE "error",
                      PyNone, PyNone, PyNone)
               EXCEPT !.requests = body.requests, !.parses = body.parses]
    ELSE body

\* analyze_question(...): what the call ends with
AnalyzeQuestion(cfg, net, response) ==
    IF GetGroqClient(cfg) = "None"
    THEN Return(PyNone,
                <<"Error: Groq ", "client not initialized",
                  ". Please check your API key configuration.">>,
                "no_client", PyNone, PyNone, PyNone)
    ELSE OuterTry(AnalyzeBody(net, response))

(***************************************************************************)
(* generate_questions                                                      *)
(***************************************************************************)
\* index of the last position of s that holds c (0 if none)
LastIndex(s, c) == Last({ k \in DOMAIN s : s[k] = c })

\* the search starting at the last "[" instead of the first
SearchArray_FromLastOpen(s) ==
    IF LastIndex(s, "[") # 0 /\ LastIndex(s, "]") > LastIndex(s, "[")
    THEN [found |-> TRUE, text |-> SubSeq(s, LastIndex(s, "["), LastIndex(s, "]"))]
    ELSE [found |-> FALSE, text |-> <<>>]
\* re.search(r'\[.*\]', s, re.DOTALL): from the first "[" to the last "]"
SearchArray(s) ==
    LET i == IndexFrom(s, 1, "[")
        j == LastIndex(s, "]")
    IN  IF i # 0 /\ j > i THEN [found |-> TRUE, text |-> SubSeq(s, i, j)]
        ELSE [found |-> FALSE, text |-> <<>>]

\* `key in q`: "True", "False", or "TypeError" for a q that is no container
InOperator(key, q) ==
    LET found == CASE q.t = "dict" -> \E i \in DOMAIN q.v : q.v[i][1] = key
                   [] q.t = "str"  -> Contains(q.v, key)
                   [] q.t = "list" -> \E i \in DOMAIN q.v : q.v[i].t = "str" /\ q.v[i].v = key
                   [] OTHER        -> FALSE
    IN  IF q.t \notin {"dict", "str", "list"} THEN "TypeError"
        ELSE IF found THEN "True" ELSE "False"

\* q[key] = x for a dict: the key keeps its place, a new key goes last
DictSet(pairs, key, x) ==
    IF \E i \in DOMAIN pairs : pairs[i][1] = key
    THEN [ i \in DOMAIN pairs |-> IF pairs[i][1] = key THEN <<key, x>> ELSE pairs[i] ]
    ELSE Append(pairs, <<key, x>>)

RequiredFields == << <<"question_content">>, <<"question_type">>, <<"difficulty">>, <<"correct_answer">> >>

\* line 366, all(k in q for k in [...]): all() stops at the first key that is not
\* in q; off are the positions of the keys for which `in` does not give True
AllPresent(q, off) ==
    IF off = {} THEN "True" ELSE InOperator(RequiredFields[First(off)], q)
RequiredPresent(q) ==
    AllPresent(q, { i \in DOMAIN RequiredFields : InOperator(RequiredFields[i], q) # "True" })

\* `key in q` for the pairs of a dict
HasKey(pairs, key) == \E i \in DOMAIN pairs : pairs[i][1] = key

\* lines 379-380: the default student_level is set only when the key is missing
WithLevel(pairs) ==
    IF HasKey(pairs, <<"student_level">>) THEN pairs
    ELSE DictSet(pairs, <<"student_level">>, PyStr(Intermediate))

\* lines 370-380 without the max and min of line 370
NormalizedQuestion_Unclamped(q, d, t) ==
    PyDict(WithLevel(DictSet(DictSet(q.v, <<"difficulty">>, PyFloat(d.v)),
                             <<"estimated_time">>,
                             IF HasKey(q.v, <<"estimated_time">>) THEN t ELSE PyInt(5))))
\* lines 370-380: the assignments to q, d and t being float(q["difficulty"]) and
\* int(q["estimated_time"])
NormalizedQuestion(q, d, t) ==
    PyDict(WithLevel(DictSet(DictSet(q.v, <<"difficulty">>, PyFloat(PyMax(10, PyMin(50, d.v)))),
                             <<"estimated_time">>,
                             IF HasKey(q.v, <<"estimated_time">>) THEN t ELSE PyInt(5))))

\* lines 366-382 in order, given what the test of line 366 and the conversions gave
CheckedQuestion(q, required, d, t) ==
    IF required = "False" THEN [keep |-> FALSE, q |-> q, exc |-> ""]
    ELSE IF required = "TypeError" THEN [keep |-> FALSE, q |-> q, exc |-> "TypeError"]
    ELSE IF q.t # "dict" THEN [keep |-> FALSE, q |-> q, exc |-> "TypeError"]   \* q["difficulty"]
    ELSE IF IsRaised(d) THEN [keep |-> FALSE, q |-> q, exc |-> d.v]
    ELSE IF HasKey(q.v, <<"estimated_time">>) /\ IsRaised(t)
         THEN [keep |-> FALSE, q |-> q, exc |-> t.v]
    ELSE [keep |-> TRUE, q |-> NormalizedQuestion(q, d, t), exc |-> ""]

\* lines 364-382, one round of the loop: [keep, q] or a raised exception
ValidateQuestion(q) ==
    CheckedQuestion(q, RequiredPresent(q),
                    ToFloat(DictGet(q.v, <<"difficulty">>, PyNone)),
                    ToInt(DictGet(q.v, <<"estimated_time">>, PyNone)))

\* lines 363-384: the loop; [exc, list]
RECURSIVE ValidateQuestions(_, _)
RECURSIVE ValidateRest(_, _, _)
\* r is what the round for the first question gave
ValidateRest(questions, validated_questions, r) ==
    IF r.exc # "" THEN [exc |-> r.exc, list |-> <<>>]
    ELSE ValidateQuestions(Tail(questions),
                           IF r.keep THEN Append(validated_questions, r.q)
                           ELSE validated_questions)
ValidateQuestions(questions, validated_questions) ==
    IF questions = <<>> THEN [exc |-> "", list |-> validated_questions]
    ELSE ValidateRest(questions, validated_questions, ValidateQuestion(Head(questions)))

GenResult(outcome, list, path, exc, requests, parses) ==
    [outcome |-> outcome, list |-> list, path |-> path, exc |-> exc,
     requests |-> requests, parses |-> parses]

GenInnerCatches(cls) == cls = "JSONDecodeError"   \* line 388: except json.JSONDecodeError
GenOuterCatches(cls) == cls \in ExceptionClasses  \* line 392: except Exception

\* lines 363-384: the loop ended with an exception or with the list
GenChecked(checked) ==
    IF checked.exc # "" THEN GenResult("raise", <<>>, "error", checked.exc, 1, 1)
    ELSE GenResult("return", checked.list, "validated", "", 1, 1)

\* lines 360-390: what json.loads gave; exc is what leaves the inner try
GenParsed(questions) ==
    IF IsRaised(questions)
    THEN (IF GenInnerCatches(questions.v)
          THEN GenResult("return", <<>>, "bad_json", "", 1, 1)
          ELSE GenResult("raise", <<>>, "error", questions.v, 1, 1))
    ELSE IF questions.t # "list"                                     \* for q in questions
         THEN GenResult("raise", <<>>, "error", "TypeError", 1, 1)
    ELSE GenChecked(ValidateQuestions(questions.v, <<>>))

\* lines 357-387: what the search for the array gave
GenMatch(json_match) ==
    IF ~json_match.found THEN GenResult("return", <<>>, "no_array", "", 1, 0)
    ELSE GenParsed(JsonLoads(json_match.text))

\* lines 350-390: the content of the answer, which may be None
GenReadContent(content) ==
    IF IsRaised(content) THEN GenResult("raise", <<>>, "api_error", content.v, 1, 0)
    ELSE IF content.t = "none"                                       \* re.search(.., None)
         THEN GenResult("raise", <<>>, "error", "TypeError", 1, 0)
    ELSE GenMatch(SearchArray(content.v))

\* lines 392-394: the handler of the outer try
GenOuterTry(body) ==
    IF body.outcome = "return" THEN body
    ELSE IF GenOuterCatches(body.exc)
         THEN GenResult("return", <<>>, body.path, "", body.requests, body.parses)
    ELSE body

\* generate_questions(...): what the call ends with; lines 287-390 are the outer
\* try, with a client
GenerateQuestions(cfg, net, response) ==
    IF GetGroqClient(cfg) = "None" THEN GenResult("return", <<>>, "no_client", "", 0, 0)
    ELSE GenOuterTry(GenReadContent(Complete(net, response)))


(***************************************************************************)
(* The callers' scan of the report                                         *)
(***************************************************************************)
\* index after the longest run of digits (word = FALSE) or word characters from i
SkipClass(s, i, word) ==
    LET j == First({ k \in i..Len(s) : ~(IF word THEN IsWordChar(s[k]) ELSE IsDigit(s[k])) })
    IN  IF j = 0 THEN (IF i > Len(s) THEN i ELSE Len(s) + 1) ELSE j

\* the pattern prefix (class+) suffix matches s at position i
MatchesAt(s, i, prefix, word, suffix) ==
    LET g0 == i + Len(prefix)
        g1 == SkipClass(s, g0, word)
    IN  /\ g0 <= Len(s)
        /\ SubSeq(s, i, g0 - 1) = prefix
        /\ g1 > g0
        /\ g1 + Len(suffix) - 1 <= Len(s)
        /\ SubSeq(s, g1, g1 + Len(suffix) - 1) = suffix

\* re.search(prefix (class+) suffix, s): the leftmost match; [found, group]
SearchGroup(s, prefix, word, suffix) ==
    LET i == First({ k \in DOMAIN s : MatchesAt(s, k, prefix, word, suffix) })
    IN  IF i = 0 THEN [found |-> FALSE, group |-> <<>>]
        ELSE [found |-> TRUE,
              group |-> SubSeq(s, i + Len(prefix), SkipClass(s, i + Len(prefix), word) - 1)]

\* the group of each match, or the callers' defaults 5 and "Intermediate"
ScanResult(time_match, level_match) ==
    [estimated_time |-> IF time_match.found THEN DigitsVal(time_match.group) ELSE 5,
     student_level |-> IF level_match.found THEN level_match.group ELSE Intermediate]

\* question_generator.py lines 151-156: (estimated_time, student_level)
ScanQuestionGenerator(analysis_text) ==
    ScanResult(SearchGroup(analysis_text, <<"**", "Estimated Time:", "**", " ">>,
                           FALSE, <<" ", "minutes">>),
               SearchGroup(analysis_text,
                           <<"**", "Appropriate ", "Student Level:", "**", " ">>, TRUE, <<>>))

\* response_comparison.py lines 160-164: (ai_estimated_time, ai_student_level)
ScanResponseComparison(analysis_text) ==
    ScanResult(SearchGroup(analysis_text, <<"Estimated Time:", "**", " ">>, FALSE, <<>>),
               SearchGroup(analysis_text, <<"Student Level:", "**", " ">>, TRUE, <<>>))

(***************************************************************************)
(* Inputs: what is configured, what the endpoint does, what the model      *)
(* answers (the payload) and how the answer is wrapped                     *)
(***************************************************************************)
Absent == [t |-> "absent", v |-> 0]

\* A field of the analysis object is absent, null, or one of these values; the
\* first value of each set is the typical one.
TypicalDifficulty == PyFloat(35)
TypicalTime == PyInt(10)
TypicalLevel == PyStr(<<"i","n","t","e","r","m","e","d","i","a","t","e">>)
TypicalSuggestions == PyStr(<<"State", " ", "the", " ", "units", ".">>)

DifficultyValues ==
    { TypicalDifficulty, Absent, PyNone, PyInt(0), PyFloat(75),
      PyStr(<<"4", ".", "5">>), PyStr(<<"h","a","r","d">>) }
TimeValues ==
    { TypicalTime, Absent, PyNone, PyInt(999), PyInt(-3), PyFloat(79),
      PyStr(<<"1", "2">>), PyStr(<<"3", ".", "5">>) }
LevelValues ==
    { TypicalLevel, Absent, PyNone, PyInt(3),
      PyStr(<<"B","E","G","I","N","N","E","R","-","i","s","h">>),
      PyStr(<<"n","o","t"," ","a","d","v","a","n","c","e","d">>),
      PyStr(<<"A","d","v","a","n","c","e","d"," ","b","e","g","i","n","n","e","r">>),
      PyStr(<<"n","o","v","i","c","e">>),
      PyStr(<<>>) }
SuggestionValues ==
    { TypicalSuggestions, Absent, PyNone, PyStr(<<>>) }

\* the members of an object, leaving out the absent ones
Member(key, x) == IF x.t = "absent" THEN <<>> ELSE << <<key, x>> >>
AnalysisObject(d, t, l, g) ==
    PyDict(Member(<<"difficulty_rating">>, d) \o Member(<<"estimated_time">>, t)
           \o Member(<<"student_level">>, l) \o Member(<<"improvement_suggestions">>, g))

\* the objects in which at most MaxVaried fields are not the typical value
MaxVaried == 2
Untypical(c) ==
    (IF c.d = TypicalDifficulty THEN 0 ELSE 1) + (IF c.t = TypicalTime THEN 0 ELSE 1)
    + (IF c.l = TypicalLevel THEN 0 ELSE 1) + (IF c.g = TypicalSuggestions THEN 0 ELSE 1)
ObjectPayloads ==
    { Dumps(AnalysisObject(c.d, c.t, c.l, c.g)) :
        c \in { x \in [d : DifficultyValues, t : TimeValues, l : LevelValues, g : SuggestionValues] :
                   Untypical(x) <= MaxVaried } }

\* an object whose four fields all need the normalisation: above both ranges, an
\* unknown level, empty suggestions
OutOfRangeObject ==
    AnalysisObject(PyInt(7), PyInt(999), PyStr(<<"n","o","v","i","c","e">>), PyStr(<<>>))

OtherPayloads ==
    { <<"I", " ", "cannot", " ", "rate", " ", "this", ".">>,
      <<"{", "difficulty", " ", "4", "}">>,
      Dumps(OutOfRangeObject),
      <<"[", "first", ",", " ", "second", "]">>,
      Dumps(PyInt(4)),
      Dumps(PyList(<<PyInt(4), PyInt(10)>>)),
      Dumps(PyDict(<< << <<"analysis">>, AnalysisObject(PyInt(9), PyInt(90), Absent, Absent) >> >>)) }

\* a question object of a generated batch
GenQuestion(d, t, l) ==
    PyDict(Member(<<"question_content">>, PyStr(<<"What", " ", "is", " ", "a", " ", "limit", "?">>))
           \o Member(<<"question_type">>, PyStr(<<"Short Answer">>))
           \o Member(<<"difficulty">>, d) \o Member(<<"estimated_time">>, t)
           \o Member(<<"student_level">>, l)
           \o Member(<<"correct_answer">>, PyStr(<<"A", " ", "bound">>))
           \o Member(<<"explanation">>, PyStr(<<"By", " ", "definition">>)))

GenElements ==
    { GenQuestion(PyFloat(35), PyInt(4), PyStr(Beginner)),
      GenQuestion(PyInt(9), Absent, Absent),
      GenQuestion(Absent, Absent, Absent),
      GenQuestion(PyNone, PyInt(4), Absent),
      GenQuestion(PyFloat(5), PyInt(999), PyStr(<<"n","o","v","i","c","e">>)),
      GenQuestion(PyStr(<<"4", ".", "5">>), PyStr(<<"3", ".", "5">>), Absent),
      GenQuestion(PyFloat(35), PyNone, Absent),
      PyInt(7) }

MaxBatch == 2
Batches == UNION { [1..n -> GenElements] : n \in 0..MaxBatch }
\* a batch of three in which the second object has no difficulty
BatchOfThree ==
    << GenQuestion(PyFloat(35), PyInt(4), PyStr(Beginner)),
       GenQuestion(Absent, Absent, Absent),
       GenQuestion(PyInt(9), Absent, Absent) >>
\* a question object of the kind the prompt asks for, with its options when it has any
BulkQuestion(type, answer, explanation, options) ==
    PyDict(Member(<<"question_content">>, PyStr(<<"Which", " ", "bound", "?">>))
           \o Member(<<"question_type">>, PyStr(<<type>>))
           \o Member(<<"difficulty">>, PyFloat(35)) \o Member(<<"estimated_time">>, PyInt(4))
           \o Member(<<"student_level">>, PyStr(Beginner))
           \o Member(<<"correct_answer">>, answer)
           \o Member(<<"explanation">>, explanation)
           \o Member(<<"options">>, options))
TypicalExplanation == PyStr(<<"By", " ", "definition">>)
FourOptions == << PyStr(<<"A. 1">>), PyStr(<<"B. 2">>), PyStr(<<"C. 3">>), PyStr(<<"D. 4">>) >>
ChoiceQuestion == BulkQuestion("Multiple Choice", PyStr(<<"B. 2">>), TypicalExplanation, PyList(FourOptions))
ShortQuestion == BulkQuestion("Short Answer", PyStr(<<"A", " ", "bound">>), TypicalExplanation, Absent)
NoExplanation == BulkQuestion("Short Answer", PyStr(<<"A", " ", "bound">>), Absent, Absent)
OptionsOnShort == BulkQuestion("Short Answer", PyStr(<<"A. 1">>), TypicalExplanation, PyList(SubSeq(FourOptions, 1, 2)))
NumberOptions == BulkQuestion("Multiple Choice", PyStr(<<"2">>), TypicalExplanation, PyList(<<PyInt(1), PyInt(2), PyInt(3), PyInt(4)>>))
\* options and answer with the bars of an absolute value
BarQuestion == BulkQuestion("Multiple Choice", PyStr(<<"A. ", "|", "x", "|">>), TypicalExplanation,
                            PyList(<< PyStr(<<"A. ", "|", "x", "|">>), PyStr(<<"B. x">>),
                                      PyStr(<<"C. -x">>), PyStr(<<"D. 0">>) >>))
\* the batches the bulk generator page is tried with
BulkBatches ==
    { <<ChoiceQuestion, ShortQuestion>>, <<NoExplanation>>,
      <<OptionsOnShort, NumberOptions>>, <<BarQuestion>>, <<>> }

Payloads ==
    ObjectPayloads \cup OtherPayloads
    \cup { Dumps(PyList(b)) : b \in Batches \cup {BatchOfThree} \cup BulkBatches }

\* the ways the endpoint wraps an answer
Wrap(w, payload) ==
    CASE w = "none"        -> payload
      [] w = "fence_json"  -> <<" ", Fence, "json", "\n">> \o payload \o <<"\n", Fence, "\n">>
      [] w = "fence_plain" -> <<Fence, "\n">> \o payload \o <<"\n", Fence>>
      [] w = "prose"       -> <<"Here is the analysis:", " ">> \o payload
                              \o <<"\n", "Hope this helps.">>
      [] w = "prose_brackets" -> <<"Here are ", "[", "3", "]", " questions:", "\n">> \o payload
                                 \o <<"\n", "Enjoy.">>

GoodConfig == [envKey |-> "gsk", secretKey |-> "", ctor |-> "ok"]

(***************************************************************************)
(* The bulk generator page (pages/bulk_question_generator.py) and the      *)
(* readers of the stored questions                                         *)
(***************************************************************************)
\* lines 23-28: st.session_state.bulk_generator at the first run of the page
InitialBulk ==
    [generated_questions |-> <<>>, form_submitted |-> FALSE,
     selected_questions |-> <<>>, generation_complete |-> FALSE]

\* lines 205 and 207-210: the exception the expander of a question raises ("" when
\* none): question['explanation'], and the loop over question["options"]
ExpanderError(question) ==
    IF ~HasKey(question.v, <<"explanation">>) THEN "KeyError"
    ELSE IF /\ DictGet(question.v, <<"question_type">>, PyNone) = PyStr(<<"Multiple Choice">>)
            /\ HasKey(question.v, <<"options">>)
            /\ DictGet(question.v, <<"options">>, PyNone).t \in {"none", "int", "float"}
         THEN "TypeError"
    ELSE ""

\* lines 193-218: the expanders from question i (from 0) on; checked is the set of
\* the checkboxes that hold True. Lines 213-218: i is appended when its checkbox is
\* checked and it is not yet selected, removed when unchecked and selected.
RECURSIVE DisplayFrom(_, _, _, _)
DisplayFrom(generated_questions, i, selected_questions, checked) ==
    IF i >= Len(generated_questions) THEN [exc |-> "", selected_questions |-> selected_questions]
    ELSE IF ExpanderError(generated_questions[i + 1]) # ""
         THEN [exc |-> ExpanderError(generated_questions[i + 1]),
               selected_questions |-> selected_questions]
    ELSE DisplayFrom(generated_questions, i + 1,
                     IF (i \in checked) = (i \in Range(selected_questions))
                     THEN selected_questions
                     ELSE IF i \in checked THEN Append(selected_questions, i)
                     ELSE SelectSeq(selected_questions, LAMBDA x : x # i),
                     checked)

\* lines 175-218: display_generated_questions up to the save button; the table of
\* lines 179-187 slices question_content
DisplayGeneratedQuestions(generated_questions, selected_questions, checked) ==
    IF \E k \in DOMAIN generated_questions :
           DictGet(generated_questions[k].v, <<"question_content">>, PyNone).t # "str"
    THEN [exc |-> "TypeError", selected_questions |-> selected_questions]
    ELSE DisplayFrom(generated_questions, 0, selected_questions, checked)

\* lines 166-168: the page after the display; the list of the selection was changed
\* in place
Displayed(bulk, display, outcome) ==
    [bulk |-> [bulk EXCEPT !.selected_questions = display.selected_questions],
     outcome |-> IF display.exc # "" THEN "error" ELSE outcome]

\* lines 163-164: the end of a run that reaches the display
ShowGenerated(bulk, checked, outcome) ==
    IF bulk.generation_complete /\ bulk.generated_questions # <<>>
    THEN Displayed(bulk, DisplayGeneratedQuestions(bulk.generated_questions,
                                                   bulk.selected_questions, checked), outcome)
    ELSE [bulk |-> bulk, outcome |-> outcome]

\* lines 124-164 without the check of lines 144-146 for an empty list
GenerateClicked_StoreEmpty(bulk, question_types, call, checked) ==
    IF ~question_types THEN [bulk |-> bulk, outcome |-> "error"]
    ELSE IF call.outcome = "raise" THEN ShowGenerated(bulk, checked, "error")
    ELSE ShowGenerated([bulk EXCEPT !.generated_questions = call.list,
                                    !.generation_complete = TRUE],
                       checked, IF call.list = <<>> THEN "error" ELSE "questions")
\* lines 124-164: the run of a click on "Generate Questions" and, after a generation,
\* the run st.rerun() starts; call is what generate_questions ended with
GenerateClicked(bulk, question_types, call, checked) ==
    IF ~question_types THEN [bulk |-> bulk, outcome |-> "error"]                 \* line 126
    ELSE IF call.outcome = "raise" THEN ShowGenerated(bulk, checked, "error")    \* line 160
    ELSE IF call.list = <<>> THEN [bulk |-> bulk, outcome |-> "error"]           \* line 145
    ELSE ShowGenerated([bulk EXCEPT !.generated_questions = call.list,
                                    !.generation_complete = TRUE],
                       checked, "questions")

\* "|".join(options) of line 241, options being a list of texts
RECURSIVE JoinBar(_)
JoinBar(options) ==
    IF options = <<>> THEN <<>>
    ELSE IF Len(options) = 1 THEN options[1].v
    ELSE options[1].v \o <<"|">> \o JoinBar(Tail(options))

\* what "|".join iterates over: the elements of a list, the pieces of a text, the
\* keys of an object
OptionTexts(options) ==
    CASE options.t = "list" -> options.v
      [] options.t = "str"  -> [ i \in DOMAIN options.v |-> PyStr(<<options.v[i]>>) ]
      [] options.t = "dict" -> [ i \in DOMAIN options.v |-> PyStr(options.v[i][1]) ]
      [] OTHER              -> << PyNone >>

\* lines 238-257: the exception building the record of q raises ("" when none);
\* "|".join accepts an iterable of texts only
BuildError(q) ==
    IF /\ DictGet(q.v, <<"question_type">>, PyNone) = PyStr(<<"Multiple Choice">>)
       /\ HasKey(q.v, <<"options">>)
       /\ \E i \in DOMAIN OptionTexts(DictGet(q.v, <<"options">>, PyNone)) :
              OptionTexts(DictGet(q.v, <<"options">>, PyNone))[i].t # "str"
    THEN "TypeError"
    ELSE IF ~HasKey(q.v, <<"explanation">>) THEN "KeyError"
    ELSE ""

\* lines 238-242: final_correct_answer
FinalCorrectAnswer(q) ==
    IF DictGet(q.v, <<"question_type">>, PyNone) = PyStr(<<"Multiple Choice">>) /\ HasKey(q.v, <<"options">>)
    THEN PyStr(Format(DictGet(q.v, <<"correct_answer">>, PyNone)) \o <<"|">>
               \o JoinBar(OptionTexts(DictGet(q.v, <<"options">>, PyNone))))
    ELSE DictGet(q.v, <<"correct_answer">>, PyNone)

\* lines 245-257: the Question built from q
NewQuestion(q) ==
    [content |-> DictGet(q.v, <<"question_content">>, PyNone),
     question_type |-> DictGet(q.v, <<"question_type">>, PyNone),
     correct_answer |-> FinalCorrectAnswer(q),
     explanation |-> DictGet(q.v, <<"explanation">>, PyNone),
     difficulty |-> ToFloat(DictGet(q.v, <<"difficulty">>, PyNone)),
     estimated_time |-> ToInt(DictGet(q.v, <<"estimated_time">>, PyInt(5))),
     student_level |-> DictGet(q.v, <<"student_level">>, PyStr(Intermediate))]

\* lines 234-260: the loop over the selected indices; added are the records given to
\* db.add so far
RECURSIVE BuildFrom(_, _, _)
BuildFrom(generated_questions, selected_indices, added) ==
    IF selected_indices = <<>> THEN [exc |-> "", added |-> added]
    ELSE IF Head(selected_indices) >= Len(generated_questions)
         THEN [exc |-> "IndexError", added |-> added]
    ELSE IF BuildError(generated_questions[Head(selected_indices) + 1]) # ""
         THEN [exc |-> BuildError(generated_questions[Head(selected_indices) + 1]), added |-> added]
    ELSE BuildFrom(generated_questions, Tail(selected_indices),
                   Append(added, NewQuestion(generated_questions[Head(selected_indices) + 1])))

\* lines 230-279 with a loop that ended without an exception only committing what
\* was added before it
SaveQuestionsToDatabase_NoRollback(bulk, questions, built, commits) ==
    IF bulk.selected_questions = <<>>
    THEN [bulk |-> bulk, questions |-> questions, outcome |-> "error"]
    ELSE IF built.exc # "" \/ ~commits
    THEN [bulk |-> bulk, questions |-> questions \o built.added, outcome |-> "error"]
    ELSE [bulk |-> [InitialBulk EXCEPT !.form_submitted = TRUE],
          questions |-> questions \o built.added, outcome |-> "success"]
\* save_questions_to_database, lines 224-279: built is what the loop ends with,
\* commits whether db.commit() returns; an empty selection is refused (lines
\* 226-228) and an exception rolls the session back (lines 275-279)
SaveQuestionsToDatabase(bulk, questions, built, commits) ==
    IF bulk.selected_questions = <<>>
    THEN [bulk |-> bulk, questions |-> questions, outcome |-> "error"]
    ELSE IF built.exc # "" \/ ~commits
    THEN [bulk |-> bulk, questions |-> questions, outcome |-> "error"]
    ELSE [bulk |-> [InitialBulk EXCEPT !.form_submitted = TRUE],
          questions |-> questions \o built.added, outcome |-> "success"]

\* text.split("|")
SplitBar(text) ==
    LET bars == { i \in DOMAIN text : text[i] = "|" }
        Bar(k) == IF k = 0 THEN 0
                  ELSE IF k > Cardinality(bars) THEN Len(text) + 1
                  ELSE CHOOSE i \in bars : Cardinality({ j \in bars : j <= i }) = k
    IN  [ k \in 1..(Cardinality(bars) + 1) |-> SubSeq(text, Bar(k - 1) + 1, Bar(k) - 1) ]

\* add.py lines 226-230 (ai_exam.py lines 65-69 are the same): the correct answer and
\* the options a reader takes from a stored question
ViewQuestion(question) ==
    IF /\ question.question_type = PyStr(<<"Multiple Choice">>)
       /\ question.correct_answer.t = "str"
       /\ "|" \in Range(question.correct_answer.v)
    THEN [correct_answer |-> Head(SplitBar(question.correct_answer.v)),
          options |-> Tail(SplitBar(question.correct_answer.v))]
    ELSE [correct_answer |-> Format(question.correct_answer), options |-> <<>>]

(***************************************************************************)
(* The migration (migrate_questions_table.py)                              *)
(***************************************************************************)
\* the columns of the questions table other than created_by
OtherColumns == {"id", "content", "created_at"}

\* the questions table with the given columns, before any run of the migration
\* altered: the ALTER TABLE statements that took effect; issued, connected and outcome
\* describe the last run
Unmigrated(columns) ==
    [columns |-> columns, altered |-> 0, runs |-> 0, issued |-> FALSE,
     connected |-> FALSE, outcome |-> "not_called"]

\* lines 26-30 without the check of line 22: the database rejects a second
\* created_by column
AddCreatedByColumn_Unchecked(m, connects, alter) ==
    IF ~connects
    THEN [m EXCEPT !.runs = @ + 1, !.issued = FALSE, !.connected = FALSE, !.outcome = "raise"]
    ELSE IF "created_by" \in m.columns
    THEN [m EXCEPT !.runs = @ + 1, !.issued = TRUE, !.connected = TRUE, !.outcome = "raise"]
    ELSE [m EXCEPT !.runs = @ + 1, !.issued = TRUE, !.connected = TRUE,
                   !.columns = IF alter = "raise" THEN @ ELSE @ \cup {"created_by"},
                   !.altered = IF alter = "raise" THEN @ ELSE @ + 1,
                   !.outcome = IF alter = "added" THEN "return" ELSE "raise"]
\* add_created_by_column(), lines 10-38. connects: get_db, the inspection and the
\* connection work (else lines 36-38 re-raise); alter: the statement and its commit
\* take effect ("added"), the statement raises ("raise"), or the statement takes
\* effect and the commit raises on a database that commits DDL at once
\* ("added_raise")
AddCreatedByColumn(m, connects, alter) ==
    IF ~connects
    THEN [m EXCEPT !.runs = @ + 1, !.issued = FALSE, !.connected = FALSE, !.outcome = "raise"]
    ELSE IF "created_by" \in m.columns                                   \* line 22
    THEN [m EXCEPT !.runs = @ + 1, !.issued = FALSE, !.connected = TRUE, !.outcome = "return"]
    ELSE [m EXCEPT !.runs = @ + 1, !.issued = TRUE, !.connected = TRUE,
                   !.columns = IF alter = "raise" THEN @ ELSE @ \cup {"created_by"},
                   !.altered = IF alter = "raise" THEN @ ELSE @ + 1,
                   !.outcome = IF alter = "added" THEN "return" ELSE "raise"]

(***************************************************************************)
(* The state machine                                                       *)
(***************************************************************************)
VARIABLES
    cfg,        \* the credential configuration of the process
    net,        \* what the completion endpoint does with a request
    payload,    \* the answer of the model
    wrapping,   \* how the endpoint wraps the answer when it does
    analysis,   \* analysis[form]: what analyze_question ended with when the answer
                \* came bare ("bare") or wrapped ("wrapped"); NotCalled before
    generated,  \* what generate_questions ended with; NotCalled before
    qgPage,     \* the question generator page after "Generate Question Analysis"
    rcPage,     \* the AI column of the response comparison page
    bulk_generator, \* st.session_state.bulk_generator of the bulk generator page
    questions,  \* the committed rows of the questions table the bulk save wrote
    shown,      \* what the last run of the bulk generator or exam page rendered
    calls,      \* calls[batch]: what generate_questions ends with in this process
                \* when the endpoint answers the bulk generator page's request with
                \* the batch; empty where the page is not run
    migration   \* the columns of the questions table and the runs of the migration

storeVars == <<bulk_generator, questions, shown, calls, migration>>
vars == <<cfg, net, payload, wrapping, analysis, generated, qgPage, rcPage, storeVars>>

NotCalled == [outcome |-> "not_called"]
Forms == {"bare", "wrapped"}
Response(form) == IF form = "bare" THEN payload ELSE Wrap(wrapping, payload)

\* With a client and an answering endpoint every payload is tried; the calls that
\* end before the answer is read (no client, a failed request, an answer without
\* content) are tried with the typical object.
Start ==
    /\ cfg \in [envKey : {"", "gsk"}, secretKey : {"", "gsk", "raise"}, ctor : {"ok", "raise"}]
    /\ net \in {"ok", "no_content", "error"}
    /\ \/ cfg = GoodConfig /\ net = "ok" /\ payload \in Payloads
       \/ payload = Dumps(AnalysisObject(TypicalDifficulty, TypicalTime, TypicalLevel,
                                        TypicalSuggestions))
    /\ wrapping \in {"none", "fence_json", "fence_plain", "prose", "prose_brackets"}
    /\ analysis = [f \in Forms |-> NotCalled]
    /\ generated = NotCalled
    /\ qgPage = NotCalled
    /\ rcPage = NotCalled
    /\ bulk_generator = InitialBulk
    /\ questions = <<>>
    /\ shown = NotCalled

\* the core and the pages that call analyze_question: the bulk generator page makes
\* no call, and the migration has not been run
Init == Start /\ calls = <<>> /\ migration = Unmigrated(OtherColumns)

\* a direct call of analyze_question
CallAnalyzeQuestion(form) ==
    /\ analysis[form] = NotCalled
    /\ analysis' = [analysis EXCEPT ![form] = AnalyzeQuestion(cfg, net, Response(form))]
    /\ UNCHANGED <<cfg, net, payload, wrapping, generated, qgPage, rcPage, storeVars>>

\* a direct call of generate_questions
CallGenerateQuestions ==
    /\ generated = NotCalled
    /\ generated' = GenerateQuestions(cfg, net, Response("wrapped"))
    /\ UNCHANGED <<cfg, net, payload, wrapping, analysis, qgPage, rcPage, storeVars>>

\* question_generator.py lines 134-211: what the page does with the analysis
SubmitQuestion(call, scan) ==
    IF call.outcome = "raise"
    THEN [outcome |-> "error", call |-> call, question |-> PyNone,        \* line 209
          analysis_results |-> PyNone]
    ELSE IF call.difficulty.t = "none"
    THEN [outcome |-> "failed", call |-> call, question |-> PyNone,       \* line 142
          analysis_results |-> PyNone]
    ELSE [outcome |-> "saved", call |-> call,
          question |-> [difficulty |-> call.difficulty.v,
                        estimated_time |-> scan.estimated_time,
                        student_level |-> scan.student_level],
          analysis_results |-> [difficulty_rating |-> call.difficulty,    \* lines 183-196
                                estimated_time |-> scan.estimated_time,
                                student_level |-> scan.student_level]]

\* question_generator.py lines 121-217, with a valid form: the analysis, the scan of
\* its report, and the Question that is committed
ShowQuestionGenerator ==
    /\ qgPage = NotCalled
    /\ \E call \in { AnalyzeQuestion(cfg, net, Response("wrapped")) } :
         qgPage' = SubmitQuestion(call, ScanQuestionGenerator(call.text))
    /\ UNCHANGED <<cfg, net, payload, wrapping, analysis, generated, rcPage, storeVars>>

\* response_comparison.py lines 150-190: what the page does with the analysis (a
\* None difficulty raises at the comparison of line 168)
ShowMetrics(call, scan) ==
    IF call.outcome = "raise" \/ call.difficulty.t = "none"
    THEN [outcome |-> "error", call |-> call, scan |-> scan, shown |-> FALSE]
    ELSE [outcome |-> "metrics", call |-> call, scan |-> scan, shown |-> TRUE]

\* response_comparison.py lines 145-191: the analysis, the scan of its report, and
\* the metric cards
ShowResponseComparison ==
    /\ rcPage = NotCalled
    /\ \E call \in { AnalyzeQuestion(cfg, net, Response("wrapped")) } :
         rcPage' = ShowMetrics(call, ScanResponseComparison(call.text))
    /\ UNCHANGED <<cfg, net, payload, wrapping, analysis, generated, qgPage, storeVars>>

\* the core called directly
Next ==
    \/ \E form \in Forms : CallAnalyzeQuestion(form)
    \/ CallGenerateQuestions

Spec == Init /\ [][Next]_vars

\* the pages that call analyze_question
PagesNext ==
    \/ ShowQuestionGenerator
    \/ ShowResponseComparison

PagesSpec == Init /\ [][PagesNext]_vars

\* the most rows the questions table is let grow to
MaxStored == 2

coreVars == <<cfg, net, payload, wrapping, analysis, generated, qgPage, rcPage, calls,
              migration>>

\* bulk_question_generator.py lines 124-164: a click on "Generate Questions", with
\* a question type selected or none (lines 125-127); the endpoint answers with one
\* of the batches. returned is the length of the list generate_questions returned
\* (-1 when it was not called). The checkboxes in the run st.rerun() starts after a
\* generation: every one holds its default True, or one that was on the page before
\* keeps its value.
BulkGenerate ==
    /\ ~bulk_generator.form_submitted
    /\ \/ \E run \in { GenerateClicked(bulk_generator, FALSE, NotCalled, {}) } :
            /\ bulk_generator' = run.bulk
            /\ shown' = [page |-> "generate", outcome |-> run.outcome, returned |-> -1]
       \/ \E batch \in BulkBatches :
            \E checked \in { {0, 1},
                             { i \in {0, 1} : i < Len(bulk_generator.generated_questions)
                                                => i \in Range(bulk_generator.selected_questions) } } :
              \E run \in { GenerateClicked(bulk_generator, TRUE, calls[batch], checked) } :
                /\ bulk_generator' = run.bulk
                /\ shown' = [page |-> "generate", outcome |-> run.outcome,
                             returned |-> Len(calls[batch].list)]
    /\ UNCHANGED <<coreVars, questions>>

\* lines 163-164 and 213-218: the run after the user changed a checkbox
BulkToggle ==
    /\ ~bulk_generator.form_submitted
    /\ bulk_generator.generation_complete /\ bulk_generator.generated_questions # <<>>
    /\ \E checked \in SUBSET {0, 1} :
         \E run \in { ShowGenerated(bulk_generator, checked, "questions") } :
           /\ bulk_generator' = run.bulk
           /\ shown' = [page |-> "toggle", outcome |-> run.outcome]
    /\ UNCHANGED <<coreVars, questions>>

\* lines 221-279: a click on "Save Selected Questions to Database", which the page
\* offers when the display of the questions ended without an exception; the
\* checkboxes hold what the last display read
BulkSave ==
    /\ ~bulk_generator.form_submitted
    /\ bulk_generator.generation_complete /\ bulk_generator.generated_questions # <<>>
    /\ ShowGenerated(bulk_generator, Range(bulk_generator.selected_questions), "questions")
         = [bulk |-> bulk_generator, outcome |-> "questions"]
    /\ \E commits \in BOOLEAN :
         \E run \in { SaveQuestionsToDatabase(
                         bulk_generator, questions,
                         BuildFrom(bulk_generator.generated_questions,
                                   bulk_generator.selected_questions, <<>>),
                         commits) } :
           /\ Len(run.questions) <= MaxStored
           /\ bulk_generator' = run.bulk
           /\ questions' = run.questions
           /\ shown' = [page |-> "save", outcome |-> run.outcome]
    /\ UNCHANGED coreVars

\* lines 31-33: the run after a save resets form_submitted and starts over
BulkReset ==
    /\ bulk_generator.form_submitted
    /\ bulk_generator' = [bulk_generator EXCEPT !.form_submitted = FALSE]
    /\ shown' = [page |-> "reset", outcome |-> "form"]
    /\ UNCHANGED <<coreVars, questions>>

\* add.py lines 201-238: the exam view decodes every stored question
ViewExams ==
    /\ questions # <<>>
    /\ shown' = [page |-> "exams", outcome |-> "exams",
                 view |-> [ i \in DOMAIN questions |-> ViewQuestion(questions[i]) ]]
    /\ UNCHANGED <<coreVars, bulk_generator, questions>>

\* the pages with the store behind them: a process with or without a credential and
\* an endpoint that answers, answers without content or fails
AppInit ==
    /\ wrapping = "none"
    /\ cfg \in {GoodConfig, [GoodConfig EXCEPT !.envKey = ""]}
    /\ payload = Dumps(AnalysisObject(TypicalDifficulty, TypicalTime, TypicalLevel,
                                      TypicalSuggestions))
    /\ Start
    /\ calls = [ batch \in BulkBatches |-> GenerateQuestions(cfg, net, Dumps(PyList(batch))) ]
    /\ migration = Unmigrated(OtherColumns)

AppNext ==
    \/ ShowQuestionGenerator
    \/ ShowResponseComparison
    \/ BulkGenerate
    \/ BulkToggle
    \/ BulkSave
    \/ BulkReset
    \/ ViewExams

AppSpec == AppInit /\ [][AppNext]_vars

\* the most runs of the migration in sequence
MaxRuns == 4

\* a run of migrate_questions_table.py
MigrationRun ==
    /\ migration.runs < MaxRuns
    /\ \E connects \in BOOLEAN, alter \in {"added", "raise", "added_raise"} :
         migration' = AddCreatedByColumn(migration, connects, alter)
    /\ UNCHANGED <<cfg, net, payload, wrapping, analysis, generated, qgPage, rcPage,
                   bulk_generator, questions, shown, calls>>

\* the migration run in sequence on a table of an older or a current schema
MigrationInit ==
    /\ wrapping = "none" /\ cfg = GoodConfig /\ net = "ok"
    /\ payload = Dumps(AnalysisObject(TypicalDifficulty, TypicalTime, TypicalLevel,
                                      TypicalSuggestions))
    /\ Start
    /\ calls = <<>>
    /\ \E columns \in SUBSET (OtherColumns \cup {"created_by"}) :
         "id" \in columns /\ migration = Unmigrated(columns)

MigrationSpec == MigrationInit /\ [][MigrationRun]_vars

(***************************************************************************)
(* Properties                                                              *)
(***************************************************************************)
Called(r) == r.outcome # "not_called"
\* the call returned a report built from a parsed JSON object
HasReport(r) == Called(r) /\ r.outcome = "return" /\ r.path \in {"direct", "embedded"}

\* index of the first occurrence of sub in s (0 if none)
FindSeq(s, sub) ==
    First({ k \in 1..(Len(s) - Len(sub) + 1) : SubSeq(s, k, k + Len(sub) - 1) = sub })

\* what a report prints between a section marker and the next piece `stop`
FieldText(text, marker, stop) ==
    LET a == FindSeq(text, marker) + Len(marker)
    IN  SubSeq(text, a, IndexFrom(text, a, stop) - 1)
PrintedTime(r) == FieldText(r.text, <<"**", "Estimated Time:", "**", " ">>, " ")
PrintedLevel(r) ==
    FieldText(r.text, <<"**", "Appropriate ", "Student Level:", "**", " ">>, "\n")

\* the raw value of a field of the object a report was built from (None if missing)
RawField(r, key) == DictGet(r.obj.v, <<key>>, PyNone)

\* a client can be built: a key in the environment or the secrets, and a constructor
\* that returns
HasCredential ==
    /\ cfg.envKey # "" \/ cfg.secretKey \notin {"", "raise"}
    /\ cfg.ctor = "ok"

\* C1: every non-null difficulty analyze_question returns lies in [1.0, 5.0],
\* whichever parse path produced it.
C1_DifficultyInRange ==
    \A f \in Forms :
        (Called(analysis[f]) /\ analysis[f].outcome = "return"
            /\ analysis[f].difficulty.t # "none")
        => (analysis[f].difficulty.v >= 10 /\ analysis[f].difficulty.v <= 50)

\* C2: in every report built from a parsed object the minutes printed after
\* "**Estimated Time:**" are an integer in 1..60, and 5 when estimated_time is
\* missing or null.
C2_PrintedTimeInRange ==
    \A f \in Forms :
        HasReport(analysis[f])
        => /\ \E n \in 1..60 : PrintedTime(analysis[f]) = IntToChars(n)
           /\ RawField(analysis[f], "estimated_time").t = "none"
                => PrintedTime(analysis[f]) = <<"5">>

\* C3: in every report built from a parsed object the level printed after
\* "**Appropriate Student Level:**" is Beginner, Intermediate or Advanced.
C3_PrintedLevelIsLabel ==
    \A f \in Forms :
        HasReport(analysis[f])
        => PrintedLevel(analysis[f]) \in {Beginner, Intermediate, Advanced}

\* the case-folded text s has w at some position
FoldedHas(s, w) ==
    \E i \in 1..(Len(s) - Len(w) + 1) : \A k \in 1..Len(w) : LowerChar(s[i + k - 1]) = w[k]
\* the label C4 states for a raw student_level
StatedLevel(raw) ==
    IF raw.t = "str" /\ FoldedHas(raw.v, <<"b","e","g","i","n","n","e","r">>) THEN Beginner
    ELSE IF raw.t = "str" /\ FoldedHas(raw.v, <<"a","d","v","a","n","c","e","d">>) THEN Advanced
    ELSE Intermediate

\* the object the direct parse of the call's response yields (a Raised value when
\* the text is not JSON)
DirectObject(f) == JsonLoads(CleanResponse(Strip(Response(f))))
\* the call read an object whose difficulty_rating and estimated_time let it reach
\* the classification of the student level
ReachesClassification(f) ==
    LET o == DirectObject(f)
    IN  /\ Called(analysis[f]) /\ HasCredential /\ net = "ok"
        /\ o.t = "dict"
        /\ ~IsRaised(ToFloat(DictGet(o.v, <<"difficulty_rating">>, PyNone)))
        /\ \/ DictGet(o.v, <<"estimated_time">>, PyNone).t = "none"
           \/ ~IsRaised(ToInt(DictGet(o.v, <<"estimated_time">>, PyNone)))

\* C4: the classification is a total function of the raw student_level: a value
\* containing "beginner" (in any case) is printed as Beginner, otherwise one
\* containing "advanced" as Advanced (also when negated), and every other value, the
\* empty string and a missing field included, as Intermediate.
C4_LevelClassification ==
    \A f \in Forms :
        ReachesClassification(f)
        => /\ analysis[f].path = "direct"
           /\ PrintedLevel(analysis[f])
                = StatedLevel(DictGet(DirectObject(f).v, <<"student_level">>, PyNone))

\* C5: for an answer that is a JSON object, the call on the bare object (direct
\* parse) and the call on the object surrounded by prose (embedded-object fallback)
\* return the same difficulty and the same report.
C5_SameOnBothPaths ==
    (/\ wrapping = "prose"
     /\ Called(analysis["bare"]) /\ analysis["bare"].path = "direct"
     /\ Called(analysis["wrapped"]))
    => /\ analysis["wrapped"].difficulty = analysis["bare"].difficulty
       /\ analysis["wrapped"].text = analysis["bare"].text

\* C6: whenever the gateway call succeeded, analyze_question returns a non-null
\* difficulty with its report; a null difficulty is returned only when the gateway
\* failed.
C6_DifficultyUnlessGatewayFailed ==
    \A f \in Forms :
        (Called(analysis[f]) /\ HasCredential /\ net = "ok")
        => (analysis[f].outcome = "return" /\ analysis[f].difficulty.t = "float")
\* C7: no failure leaves the core as an exception: whatever the credential lookup,
\* the client construction, the request and the parsing do, analyze_question
\* returns a (difficulty or None, message text) pair and generate_questions a list.
C7_NeverRaises ==
    /\ \A f \in Forms :
         Called(analysis[f])
         => /\ analysis[f].outcome = "return"
            /\ analysis[f].difficulty.t \in {"none", "float"}
            /\ analysis[f].text # <<>>
    /\ Called(generated)
         => (generated.outcome = "return" /\ DOMAIN generated.list = 1..Len(generated.list))

\* C7 witness: both functions met an exception that is not a JSON decoding error
\* after the answer arrived (analyze_question on an answer that parses but is not an
\* object, generate_questions on an array whose element is not an object) and
\* returned.
C7_Witness ==
    /\ Called(analysis["wrapped"]) /\ analysis["wrapped"].path = "error"
    /\ analysis["wrapped"].outcome = "return"
    /\ Called(generated) /\ generated.path = "error" /\ generated.outcome = "return"

\* C8: without a credential or a client analyze_question returns (None, a message
\* containing "client not initialized") and generate_questions the empty list, and
\* neither sends a request nor attempts a parse.
C8_NoClient ==
    ~HasCredential
    => /\ \A f \in Forms :
            Called(analysis[f])
            => /\ analysis[f].outcome = "return"
               /\ analysis[f].difficulty.t = "none"
               /\ Contains(analysis[f].text, <<"client not initialized">>)
               /\ analysis[f].requests = 0 /\ analysis[f].parses = 0
       /\ Called(generated)
            => /\ generated.outcome = "return" /\ generated.list = <<>>
               /\ generated.requests = 0 /\ generated.parses = 0

\* C8 witness: a key is configured but the constructor of the client raises, and
\* both functions were called.
C8_Witness ==
    /\ cfg.envKey # "" /\ cfg.ctor = "raise"
    /\ Called(analysis["bare"]) /\ analysis["bare"].path = "no_client"
    /\ Called(generated) /\ generated.path = "no_client"

\* C9: scanning a report built from a parsed object with the callers' patterns
\* yields the estimated_time and the student_level that were formatted into it.
C9_ScanRoundTrip ==
    /\ (Called(qgPage) /\ HasReport(qgPage.call))
         => /\ qgPage.outcome = "saved"
            /\ IntToChars(qgPage.question.estimated_time) = Format(qgPage.call.est)
            /\ qgPage.question.student_level = Format(qgPage.call.level)
    /\ (Called(rcPage) /\ HasReport(rcPage.call))
         => /\ IntToChars(rcPage.scan.estimated_time) = Format(rcPage.call.est)
            /\ rcPage.scan.student_level = Format(rcPage.call.level)

\* C10: when neither the direct parse nor the embedded-object search yields an
\* object, analyze_question returns 3.0 and "Analysis (raw): " followed by the
\* response text as the model returned it, with nothing removed.
C10_RawFallback ==
    \A f \in Forms :
        (Called(analysis[f]) /\ analysis[f].path = "raw")
        => /\ analysis[f].difficulty = PyFloat(30)
           /\ analysis[f].text = <<"Analysis (raw): ">> \o Response(f)
\* the text the embedded-object search finds in the call's cleaned response, and the
\* value json.loads gives for it
EmbeddedText(f) == SearchFlatObject(CleanResponse(Strip(Response(f))))
EmbeddedObject(f) == JsonLoads(EmbeddedText(f).text)
\* the direct parse of the answer failed and the first brace pair without nested
\* braces holds a JSON object
FallbackFindsObject(f) ==
    /\ Called(analysis[f]) /\ HasCredential /\ net = "ok"
    /\ IsRaised(DirectObject(f))
    /\ EmbeddedText(f).found
    /\ EmbeddedObject(f).t = "dict"
\* field key of object o is missing or null
NoValue(o, key) == DictGet(o.v, <<key>>, PyNone).t = "none"
PrintedSuggestions(r) ==
    LET a == FindSeq(r.text, <<"### Improvement Suggestions:", "\n">>) + 2
    IN  SubSeq(r.text, a, Len(r.text) - 1)

\* C11: the embedded-object fallback runs only after the direct parse of the cleaned
\* response failed, and when the first brace pair without nested braces holds a JSON
\* object the call returns a non-null difficulty and the template report in which
\* every missing or null field has its default (3.0, 5, Intermediate, placeholder).
C11_ParsePriority ==
    \A f \in Forms :
        /\ (Called(analysis[f]) /\ analysis[f].path \in {"embedded", "raw"})
             => /\ IsRaised(DirectObject(f))
                /\ analysis[f].path = "embedded" => analysis[f].obj = EmbeddedObject(f)
        /\ FallbackFindsObject(f)
             => /\ analysis[f].path = "embedded"
                /\ analysis[f].difficulty.t = "float"
                /\ NoValue(EmbeddedObject(f), "difficulty_rating")
                     => analysis[f].difficulty = PyFloat(30)
                /\ NoValue(EmbeddedObject(f), "estimated_time")
                     => PrintedTime(analysis[f]) = <<"5">>
                /\ NoValue(EmbeddedObject(f), "student_level")
                     => PrintedLevel(analysis[f]) = Intermediate
                /\ NoValue(EmbeddedObject(f), "improvement_suggestions")
                     => PrintedSuggestions(analysis[f]) = NoSuggestions
\* C12: for an answer that is a JSON object, the call on the object wrapped in code
\* fence markers (with or without "json", with white space around) returns the same
\* difficulty and report as the call on the object alone; the fenced object with
\* difficulty_rating 7, estimated_time 999, student_level "novice" and empty
\* suggestions yields 5.0, 60 minutes, Intermediate and the placeholder.
C12_FenceTransparent ==
    (/\ wrapping \in {"fence_json", "fence_plain"}
     /\ DirectObject("bare").t = "dict"
     /\ Called(analysis["bare"]) /\ Called(analysis["wrapped"]))
    => /\ analysis["wrapped"].difficulty = analysis["bare"].difficulty
       /\ analysis["wrapped"].text = analysis["bare"].text
       /\ payload = Dumps(OutOfRangeObject)
            => /\ analysis["wrapped"].difficulty = PyFloat(50)
               /\ PrintedTime(analysis["wrapped"]) = <<"6", "0">>
               /\ PrintedLevel(analysis["wrapped"]) = Intermediate
               /\ PrintedSuggestions(analysis["wrapped"]) = NoSuggestions

\* C12 witness: the out-of-range object came inside a json fence and was parsed
\* directly, as the bare object was.
C12_Witness ==
    /\ wrapping = "fence_json" /\ payload = Dumps(OutOfRangeObject)
    /\ Called(analysis["bare"]) /\ analysis["bare"].path = "direct"
    /\ Called(analysis["wrapped"]) /\ analysis["wrapped"].path = "direct"
    /\ analysis["wrapped"].difficulty = PyFloat(50)
\* C13: in every report built from a parsed object the text under
\* "### Improvement Suggestions:" is non-empty, and it is the placeholder when
\* improvement_suggestions is missing, null or the empty string.
C13_SuggestionsNeverEmpty ==
    \A f \in Forms :
        HasReport(analysis[f])
        => /\ PrintedSuggestions(analysis[f]) # <<>>
           /\ (\/ RawField(analysis[f], "improvement_suggestions").t = "none"
               \/ RawField(analysis[f], "improvement_suggestions") = PyStr(<<>>))
                => PrintedSuggestions(analysis[f]) = NoSuggestions
\* x is an int, a float, or text that spells an integer or a real number
NumericLike(x) == x.t \in {"int", "float"} \/ (x.t = "str" /\ StrNumber(x.v).ok)
\* the object o has a numeric difficulty_rating and estimated_time (the latter may be
\* missing) and nothing else that stops the analysis
NumericAnalysis(o) ==
    /\ o.t = "dict"
    /\ NumericLike(DictGet(o.v, <<"difficulty_rating">>, PyNone))
    /\ NoValue(o, "estimated_time") \/ NumericLike(DictGet(o.v, <<"estimated_time">>, PyNone))
    /\ DictGet(o.v, <<"student_level">>, PyNone).t \in {"none", "str"}
\* the batch element q has the four required fields, a numeric difficulty and a
\* numeric or missing estimated_time
NumericQuestion(q) ==
    /\ q.t = "dict"
    /\ \A i \in DOMAIN RequiredFields : HasKey(q.v, RequiredFields[i])
    /\ NumericLike(DictGet(q.v, <<"difficulty">>, PyNone))
    /\ ~HasKey(q.v, <<"estimated_time">>)
         \/ NumericLike(DictGet(q.v, <<"estimated_time">>, PyNone))
\* the array of the answer, when the answer is a batch
Batch == JsonLoads(payload)

\* C14: a difficulty or estimated_time that is an int, a real or text spelling one is
\* coerced: analyze_question returns a numeric difficulty with its report, and
\* generate_questions keeps every record of a batch whose records are all of that
\* kind.
C14_NumbersCoerced ==
    /\ \A f \in Forms :
         (Called(analysis[f]) /\ HasCredential /\ net = "ok" /\ NumericAnalysis(DirectObject(f)))
         => (analysis[f].path = "direct" /\ analysis[f].difficulty.t = "float")
    /\ (/\ Called(generated) /\ HasCredential /\ net = "ok"
        /\ Batch.t = "list"
        /\ \A i \in DOMAIN Batch.v : NumericQuestion(Batch.v[i]))
       => (generated.path = "validated" /\ Len(generated.list) = Len(Batch.v))
\* the positions of the batch's objects that have all four required fields
Complete4(q) == q.t = "dict" /\ \A i \in DOMAIN RequiredFields : HasKey(q.v, RequiredFields[i])
KeptPositions == { i \in DOMAIN Batch.v : Complete4(Batch.v[i]) }
\* the position in the batch of the k-th object with all four fields
KeptPosition(k) ==
    CHOOSE i \in KeptPositions : Cardinality({ j \in KeptPositions : j <= i }) = k
\* the fields the validation leaves alone are those of the source object
SameQuestion(out, src) ==
    /\ out.t = "dict"
    /\ \A key \in {"question_content", "question_type", "correct_answer", "explanation"} :
         DictGet(out.v, <<key>>, PyNone) = DictGet(src.v, <<key>>, PyNone)
    /\ HasKey(src.v, <<"student_level">>)
         => DictGet(out.v, <<"student_level">>, PyNone) = DictGet(src.v, <<"student_level">>, PyNone)
\* the answer is an array of objects
BatchOfObjects ==
    /\ Called(generated) /\ HasCredential /\ net = "ok"
    /\ Batch.t = "list"
    /\ \A i \in DOMAIN Batch.v : Batch.v[i].t = "dict"

\* C15: for a batch of question objects the returned list is the subsequence of the
\* objects that have question_content, question_type, difficulty and correct_answer,
\* in their order, every other object being dropped; the batch of three whose second
\* object has no difficulty yields two elements.
C15_ValidSubsequence ==
    BatchOfObjects
    => /\ generated.outcome = "return"
       /\ Len(generated.list) = Cardinality(KeptPositions)
       /\ \A k \in DOMAIN generated.list :
            SameQuestion(generated.list[k], Batch.v[KeptPosition(k)])
       /\ Batch = PyList(BatchOfThree) => Len(generated.list) = 2
\* a record the loop accepts when it is alone: the four required fields, a numeric
\* difficulty, and an estimated_time that is missing, a number or text spelling an
\* integer
ValidRecord(q) ==
    /\ Complete4(q)
    /\ NumericLike(DictGet(q.v, <<"difficulty">>, PyNone))
    /\ \/ ~HasKey(q.v, <<"estimated_time">>)
       \/ DictGet(q.v, <<"estimated_time">>, PyNone).t \in {"int", "float"}
       \/ /\ DictGet(q.v, <<"estimated_time">>, PyNone).t = "str"
          /\ StrNumber(DictGet(q.v, <<"estimated_time">>, PyNone).v).isInt

\* C16: a record that fails validation or normalisation removes only itself: every
\* valid record of the batch is still returned.
C16_BadRecordAlone ==
    (Called(generated) /\ HasCredential /\ net = "ok" /\ Batch.t = "list")
    => /\ generated.outcome = "return"
       /\ Len(generated.list) = Cardinality({ i \in DOMAIN Batch.v : ValidRecord(Batch.v[i]) })
\* the text from the first "[" of s to its last "]", <<>> when there is no such span
BracketSpan(s) ==
    LET opens  == { i \in DOMAIN s : s[i] = "[" }
        closes == { j \in DOMAIN s : s[j] = "]" }
    IN  IF opens # {} /\ closes # {} /\ First(opens) < Last(closes)
        THEN SubSeq(s, First(opens), Last(closes)) ELSE <<>>

\* C17: when the response has no "[" ... "]" span, or the span is not JSON,
\* generate_questions returns the empty list and does not raise.
C17_NoArrayGivesEmpty ==
    (/\ Called(generated) /\ HasCredential /\ net = "ok"
     /\ \/ BracketSpan(Response("wrapped")) = <<>>
        \/ IsRaised(JsonLoads(BracketSpan(Response("wrapped")))))
    => (generated.outcome = "return" /\ generated.list = <<>>)

\* C17 witness: the answer was a batch with a valid question, but the prose before it
\* has brackets of its own, so the span from the first "[" to the last "]" is not JSON.
C17_Witness ==
    /\ Called(generated) /\ generated.path = "bad_json"
    /\ wrapping = "prose_brackets"
    /\ Batch.t = "list" /\ Len(Batch.v) = 1 /\ ValidRecord(Batch.v[1])
\* C18: when the answer is one array of question objects, alone or inside prose or
\* code fences (the prose may have "[" or "]" of its own), the array is located and
\* its valid elements are returned, not the empty list.
C18_ArrayLocatedInProse ==
    (/\ BatchOfObjects
     /\ Batch.v # <<>>
     /\ \A i \in DOMAIN Batch.v : ValidRecord(Batch.v[i]))
    => /\ generated.outcome = "return"
       /\ Len(generated.list) = Len(Batch.v)

\* the difficulty of a source record as a number in tenths
SourceDifficulty(q) == ToFloat(DictGet(q.v, <<"difficulty">>, PyNone)).v
\* the difficulty of a returned element
OutDifficulty(q) == DictGet(q.v, <<"difficulty">>, PyNone)

\* C19: every element of a returned list has a real difficulty between 1.0 and 5.0; the
\* elements of a returned list are the complete records of the batch, none left out for
\* its difficulty, a source value below 1 being returned as 1.0, one above 5 as 5.0
\* and one in between as it is.
C19_GeneratedDifficultyClamped ==
    Called(generated) =>
        /\ \A k \in DOMAIN generated.list :
             /\ OutDifficulty(generated.list[k]).t = "float"
             /\ OutDifficulty(generated.list[k]).v >= 10
             /\ OutDifficulty(generated.list[k]).v <= 50
        /\ (BatchOfObjects /\ generated.list # <<>>) =>
             /\ Len(generated.list) = Cardinality(KeptPositions)
             /\ \A k \in DOMAIN generated.list :
                  LET d == SourceDifficulty(Batch.v[KeptPosition(k)])
                  IN  OutDifficulty(generated.list[k]).v =
                          IF d < 10 THEN 10 ELSE IF d > 50 THEN 50 ELSE d

\* C19 witness: a batch with a record of difficulty 9 and one of difficulty 0.5 came
\* back as two elements, of difficulty 5.0 and 1.0.
C19_Witness ==
    /\ BatchOfObjects /\ Len(Batch.v) = 2 /\ Len(generated.list) = 2
    /\ { SourceDifficulty(Batch.v[i]) : i \in {1, 2} } = {90, 5}
    /\ { OutDifficulty(generated.list[i]).v : i \in {1, 2} } = {50, 10}

\* the estimated_time of a source record, PyNone when the key is missing
SourceTime(q) == DictGet(q.v, <<"estimated_time">>, PyNone)
\* a complete record with a numeric difficulty whose estimated_time is missing, null
\* or a number
TimedRecord(q) ==
    /\ Complete4(q)
    /\ NumericLike(DictGet(q.v, <<"difficulty">>, PyNone))
    /\ SourceTime(q).t \in {"none", "int", "float"}

\* C20: a record without estimated_time, or with null for it, is returned with 5, and a
\* record with a number for it is returned with the integer value of that number,
\* however large.
C20_GeneratedTime ==
    (/\ BatchOfObjects /\ wrapping = "none"
     /\ \A i \in DOMAIN Batch.v : TimedRecord(Batch.v[i]))
    => /\ Len(generated.list) = Len(Batch.v)
       /\ \A i \in DOMAIN generated.list :
            DictGet(generated.list[i].v, <<"estimated_time">>, PyNone) =
                IF SourceTime(Batch.v[i]).t = "none" THEN PyInt(5)
                ELSE ToInt(SourceTime(Batch.v[i]))

\* the student_level of a returned element
OutLevel(q) == DictGet(q.v, <<"student_level">>, PyNone)

\* C21: every returned element has one of the three labels for its student_level:
\* Intermediate when the source has none, otherwise the label the classification of
\* C4 gives for the source value.
C21_GeneratedLevelIsLabel ==
    (BatchOfObjects /\ Len(generated.list) = Cardinality(KeptPositions)) =>
        \A k \in DOMAIN generated.list :
            /\ OutLevel(generated.list[k]).t = "str"
            /\ OutLevel(generated.list[k]).v \in {Beginner, Intermediate, Advanced}
            /\ OutLevel(generated.list[k]).v
                 = StatedLevel(DictGet(Batch.v[KeptPosition(k)].v, <<"student_level">>, PyNone))

\* the object has the key with a text that is not empty
HasText(q, key) ==
    /\ HasKey(q.v, <<key>>)
    /\ DictGet(q.v, <<key>>, PyNone).t = "str"
    /\ DictGet(q.v, <<key>>, PyNone).v # <<>>

\* C22: every returned element has a non-empty text for question_content,
\* question_type, correct_answer and explanation.
C22_TextFieldsPresent ==
    Called(generated) =>
        \A k \in DOMAIN generated.list :
            \A key \in {"question_content", "question_type", "correct_answer", "explanation"} :
                HasText(generated.list[k], key)

\* C23: a returned element has options only when its question_type is Multiple Choice,
\* and options, when present, is a list of exactly four texts.
C23_OptionsOnlyForChoice ==
    Called(generated) =>
        \A k \in DOMAIN generated.list :
            HasKey(generated.list[k].v, <<"options">>) =>
                LET options == DictGet(generated.list[k].v, <<"options">>, PyNone)
                IN  /\ DictGet(generated.list[k].v, <<"question_type">>, PyNone)
                          = PyStr(<<"Multiple Choice">>)
                    /\ options.t = "list"
                    /\ Len(options.v) = 4
                    /\ \A i \in DOMAIN options.v : options.v[i].t = "str"

\* the calls that were made
CallsMade == { analysis[f] : f \in { g \in Forms : Called(analysis[g]) } }
                 \cup (IF Called(generated) THEN {generated} ELSE {})

\* C24 as stated: every call of analyze_question or generate_questions sends exactly
\* one request to the completion endpoint.
C24_ExactlyOneRequest == \A r \in CallsMade : r.requests = 1

\* C24 amended: a call sends one request when a client could be built and none when
\* it could not; no upstream error, parse failure or fallback sends a second one.
C24_OneRequestWithClient ==
    \A r \in CallsMade : r.requests = IF GetGroqClient(cfg) = "None" THEN 0 ELSE 1

\* C24 witness: the request failed upstream in a call of analyze_question and in a call
\* of generate_questions, and each had sent one request.
C24_Witness ==
    /\ Called(analysis["bare"]) /\ analysis["bare"].path = "api_error"
    /\ analysis["bare"].requests = 1
    /\ Called(generated) /\ generated.path = "api_error" /\ generated.requests = 1

\* the call returned the message of the outer handler (line 251)
ReportsApiError(r) == r.outcome = "return" /\ r.text # <<>> /\ Head(r.text) = "Error calling Groq API: "

\* C27: when the endpoint answered with a text, whatever its shape, analyze_question
\* does not return the upstream-error result: the answer is recovered by the parse
\* fallbacks.
C27_ShapeErrorsRecovered ==
    \A f \in Forms :
        (Called(analysis[f]) /\ HasCredential /\ net = "ok")
        => ~ReportsApiError(analysis[f])

\* C28: every index held in bulk_generator.selected_questions is a valid index into
\* the current bulk_generator.generated_questions, whatever sequence of generate,
\* check/uncheck, re-generate and save actions came before
C28_SelectedIndicesValid ==
    \A k \in DOMAIN bulk_generator.selected_questions :
        bulk_generator.selected_questions[k] < Len(bulk_generator.generated_questions)

\* the records of the selected questions, in the order of the selection
SelectedRecords(bulk) ==
    [ k \in DOMAIN bulk.selected_questions |->
        NewQuestion(bulk.generated_questions[bulk.selected_questions[k] + 1]) ]

\* C29: a click on "Save Selected Questions to Database" either commits the record of
\* every selected question and resets bulk_generator (both lists empty,
\* generation_complete false, form_submitted true), or commits nothing and leaves
\* bulk_generator as it was
C29_SaveAllOrNothing ==
    [][ BulkSave =>
          \/ /\ shown'.outcome = "success"
             /\ C28_SelectedIndicesValid
             /\ questions' = questions \o SelectedRecords(bulk_generator)
             /\ bulk_generator' = [generated_questions |-> <<>>, selected_questions |-> <<>>,
                                   generation_complete |-> FALSE, form_submitted |-> TRUE]
          \/ /\ shown'.outcome = "error"
             /\ questions' = questions
             /\ bulk_generator' = bulk_generator ]_vars

\* a save that failed at its second record after its first was added, with an earlier
\* save committed
C29_Witness ==
    /\ shown = [page |-> "save", outcome |-> "error"]
    /\ questions # <<>>
    /\ bulk_generator.generated_questions = calls[<<OptionsOnShort, NumberOptions>>].list
    /\ bulk_generator.selected_questions = <<0, 1>>
    /\ BuildFrom(bulk_generator.generated_questions, <<0, 1>>, <<>>).exc = "TypeError"
    /\ Len(BuildFrom(bulk_generator.generated_questions, <<0, 1>>, <<>>).added) = 1

\* the correct answer and the ordered options of a generated Multiple Choice question
Original(q) ==
    [correct_answer |-> Format(DictGet(q.v, <<"correct_answer">>, PyNone)),
     options |-> [ i \in DOMAIN OptionTexts(DictGet(q.v, <<"options">>, PyNone)) |->
                     OptionTexts(DictGet(q.v, <<"options">>, PyNone))[i].v ]]

\* C25: every Multiple Choice question with options that the bulk save commits is
\* stored as the correct answer, "|", and the options joined by "|", and the readers'
\* decoding of the stored text gives back the original correct answer and the
\* original ordered list of options
C25_EncodingRoundTrips ==
    [][ (BulkSave /\ shown'.outcome = "success") =>
          \A k \in DOMAIN bulk_generator.selected_questions :
             \A q \in { bulk_generator.generated_questions[bulk_generator.selected_questions[k] + 1] } :
                (/\ DictGet(q.v, <<"question_type">>, PyNone) = PyStr(<<"Multiple Choice">>)
                 /\ HasKey(q.v, <<"options">>))
                => /\ questions'[Len(questions) + k].correct_answer.v
                        = Original(q).correct_answer \o <<"|">>
                          \o JoinBar(OptionTexts(DictGet(q.v, <<"options">>, PyNone)))
                   /\ ViewQuestion(questions'[Len(questions) + k]) = Original(q) ]_vars

\* analyze_question returned a null difficulty to the page
NullDifficulty(page) ==
    Called(page) /\ page.call.outcome = "return" /\ page.call.difficulty.t = "none"

\* C26: when analyze_question returns a null difficulty, the question generator page
\* shows its error, commits no question and leaves analysis_results None, and the
\* response comparison page shows its error and no metrics; when generate_questions
\* returns an empty list, the bulk generator page shows its error and leaves
\* bulk_generator and the stored questions as they were
C26_NullResultsRenderError ==
    /\ [](/\ NullDifficulty(qgPage) => /\ qgPage.outcome = "failed"
                                        /\ qgPage.question = PyNone
                                        /\ qgPage.analysis_results = PyNone
          /\ NullDifficulty(rcPage) => /\ rcPage.outcome = "error"
                                        /\ ~rcPage.shown)
    /\ [][ (BulkGenerate /\ shown'.returned = 0)
             => /\ shown'.outcome = "error"
                /\ UNCHANGED <<bulk_generator, questions>> ]_vars

\* the three pages after a null analysis and an empty generation
C26_Witness ==
    /\ NullDifficulty(qgPage) /\ qgPage.outcome = "failed"
    /\ NullDifficulty(rcPage) /\ rcPage.outcome = "error"
    /\ shown = [page |-> "generate", outcome |-> "error", returned |-> 0]

\* C30: a run issues the ALTER TABLE statement only on a table without a created_by
\* column; over any number of runs in sequence the column is added at most once and is
\* there after every run that returned; and a run on a table that has the column
\* changes nothing and, with the database reachable, returns
C30_MigrationIdempotent ==
    /\ [](/\ migration.altered <= 1
          /\ migration.altered = 1 => "created_by" \in migration.columns
          /\ migration.outcome = "return" => "created_by" \in migration.columns)
    /\ [][ MigrationRun =>
             /\ migration'.issued => "created_by" \notin migration.columns
             /\ "created_by" \in migration.columns
                  => /\ migration'.columns = migration.columns
                     /\ migration'.altered = migration.altered
                     /\ ~migration'.issued
                     /\ migration'.connected => migration'.outcome = "return" ]_vars

\* a third run, after the first run added the column and the second changed nothing
C30_Witness ==
    /\ migration.runs = 3 /\ migration.altered = 1
    /\ migration.outcome = "return" /\ ~migration.issued
    /\ migration.columns = OtherColumns \cup {"created_by"}

=============================================================================
